---------------------------- MODULE Spec2Model ----------------------------
(***************************************************************************)
(* A model of solar-sim: the frame loop of lib.rs (input events, one       *)
(* dispatch of Timer, ControlCamera and the thread-local Render per        *)
(* RedrawRequested, then world.maintain()) and the physics systems of      *)
(* physics/mod.rs (Gravity, Mechanics) applied to a small world.           *)
(*                                                                         *)
(* Numbers.  f32 values of the camera and of Controls are held as integers *)
(* in fixed point: angles in units of 1e-4 rad (the resolution of          *)
(* SAFE_FRAC_PI_2 = FRAC_PI_2 - 0.0001), sines, cosines and camera         *)
(* coordinates in units of 1/Scale, mouse_scroll in units of 1/2 (so that  *)
(* scroll * 0.5 is exact).  A Duration is a whole number of seconds.       *)
(* f32 values of the physics components are integers extended with NaN and *)
(* the two infinities (operators FAdd, FMul, FDiv ...), because the        *)
(* gravity formula divides by a distance that can be zero.  A quotient or  *)
(* a square root that is not an integer is rounded toward zero; f32        *)
(* rounding to the nearest representable value is not modelled.            *)
(***************************************************************************)
EXTENDS Integers, Sequences, FiniteSets, TLC

(***************************************************************************)
(* Bounds of the model                                                     *)
(***************************************************************************)
MaxFrames == 2      \* RedrawRequested events handled in one behaviour
MaxEvents == 2      \* input events (keyboard, mouse, wheel) in one behaviour
MaxDt == 1          \* largest time (s) that passes between two clock readings
NumEntities == 3    \* entities of the world the physics systems run on
MaxSteps == 3       \* runs of Gravity and Mechanics in one behaviour
MaxSpeed == 2       \* largest value of the SimSpeed resource
MaxCoord == 10000   \* largest finite coordinate of a Position after a run
                    \* of Mechanics (squared distances stay below 2^31)

(***************************************************************************)
(* Program constants                                                       *)
(***************************************************************************)
Scale == 10 ^ 4                     \* fixed-point resolution: 1 = 1e-4
FRAC_PI_2 == 15708                  \* std::f32::consts::FRAC_PI_2 in 1e-4 rad
SAFE_FRAC_PI_2 == FRAC_PI_2 - 1     \* FRAC_PI_2 - 0.0001
speed == 10                         \* ControlCamera::default().speed
sensitivity == 1                    \* ControlCamera::default().sensitivity
G == 667                            \* 6.67e-11, with mass counted in 1e13 kg
SimSpeedDefault == 1000             \* SimSpeed::default()
NumPlanets == 9                     \* the rows of PLANETS

VARIABLES
    pc,         \* where the event loop's closure is: "idle" (between two
                \* events), "dispatch" (inside dispatcher.dispatch), "exited"
    st,         \* per system of the dispatcher: "idle", "running", "done"
    frame,      \* number of RedrawRequested events handled or in progress
    nev,        \* number of input events handled
    clock,      \* the monotonic clock: the latest reading of Instant::now()
    timer,      \* Timer.0: the Instant of the Timer's previous run
    delta,      \* the Delta resource
    controls,   \* the Controls resource
    camera,     \* the Camera resource
    ran,        \* history: the systems that finished in this frame, in order
    stamp,      \* history: the frame that last wrote Delta and Camera, the
                \* stamps ControlCamera and Render found when they read them,
                \* and whether an input handler ever ran during a dispatch
    published,  \* history: the values Timer has written to Delta, in order
    maintained, \* history: the number of calls of world.maintain() so far
    lastKey,    \* history: per movement flag, whether the latest keyboard
                \* event among the keys mapped to it was a press (FALSE when
                \* there was no such event)
    pending,    \* history: the number of mouse and wheel events received
                \* since ControlCamera last drained Controls, and the sum
                \* of their deltas
    mass,       \* storage of Mass: entity -> f32, for the entities holding one
    pos,        \* storage of Position: entity -> Point3<f32>
    vel,        \* storage of Velocity: entity -> Vector3<f32>
    acc,        \* storage of Acceleration: entity -> Vector3<f32>
    simSpeed,   \* the SimSpeed resource
    trace,      \* history: the physics systems run so far, in order
    before      \* history: the storages as they were before the last run

loopVars == <<pc, st, frame, nev, clock, timer, delta, controls, camera, ran,
              stamp, published, maintained, lastKey, pending>>

physVars == <<mass, pos, vel, acc, simSpeed, trace, before>>

vars == <<loopVars, physVars>>

(***************************************************************************)
(* Integer helpers                                                         *)
(***************************************************************************)
Abs(x) == IF x < 0 THEN -x ELSE x

\* Division rounding toward zero (b > 0)
Div(a, b) == IF a >= 0 THEN a \div b ELSE -((-a) \div b)

RECURSIVE SqrtIter(_, _)
SqrtIter(n, x) ==
    LET y == (x + n \div x) \div 2
    IN  IF y >= x THEN x ELSE SqrtIter(n, y)

\* Largest r with r * r <= n
ISqrt(n) == IF n <= 0 THEN 0 ELSE SqrtIter(n, n)

(***************************************************************************)
(* Fixed-point trigonometry (f32::sin_cos): Bhaskara's approximation of    *)
(* the sine, sin x = 4 P / (5 pi^2 / 4 - P) with P = x (pi - x), exact at  *)
(* the multiples of a quarter turn; the result is in units of 1/Scale.     *)
(***************************************************************************)
SinHalfTurn(x) ==
    LET P == x * (2 * FRAC_PI_2 - x)
    IN  Div(4 * P, Div(5 * FRAC_PI_2 * FRAC_PI_2 - P, Scale))

Sin(a) ==
    LET r == a % (4 * FRAC_PI_2)
    IN  IF r <= 2 * FRAC_PI_2 THEN SinHalfTurn(r)
        ELSE -SinHalfTurn(r - 2 * FRAC_PI_2)

Cos(a) == Sin(a + FRAC_PI_2)

\* <<sin, cos>> as f32::sin_cos returns them
SinCos(a) == <<Sin(a), Cos(a)>>

(***************************************************************************)
(* cgmath vectors in fixed point                                           *)
(***************************************************************************)
VAdd(u, v) == <<u[1] + v[1], u[2] + v[2], u[3] + v[3]>>
VScale(u, k) == <<u[1] * k, u[2] * k, u[3] * k>>
Magnitude(u) == ISqrt(u[1] * u[1] + u[2] * u[2] + u[3] * u[3])
\* InnerSpace::normalize of a vector whose components are in units of
\* 1/Scale: the unit vector, again in units of 1/Scale
Normalize(u) ==
    LET m == Magnitude(u)
    IN  <<Div(u[1] * Scale, m), Div(u[2] * Scale, m), Div(u[3] * Scale, m)>>

(***************************************************************************)
(* control.rs: the Controls resource and the three input handlers          *)
(***************************************************************************)
\* #[derive(Default)] Controls
ControlsDefault ==
    [is_up_pressed |-> FALSE, is_down_pressed |-> FALSE,
     is_forward_pressed |-> FALSE, is_backward_pressed |-> FALSE,
     is_left_pressed |-> FALSE, is_right_pressed |-> FALSE,
     mouse_dx |-> 0, mouse_dy |-> 0, mouse_scroll |-> 0]

\* mouse_scroll is held in halves
ToHalves(x) == 2 * x
FromHalves(x) == Div(x, 2)

\* Controls::process_mouse
process_mouse(c, dx, dy) == [c EXCEPT !.mouse_dx = dx, !.mouse_dy = dy]

\* The value process_wheel computes from a MouseScrollDelta
\* d = [kind |-> "LineDelta" or "PixelDelta", scroll |-> n]
WheelValue(d) ==
    IF d.kind = "LineDelta" THEN Div(ToHalves(-d.scroll), 2)   \* -scroll * 0.5
    ELSE ToHalves(-d.scroll)                                   \* -scroll as f32

\* Controls::process_wheel
process_wheel(c, d) == [c EXCEPT !.mouse_scroll = WheelValue(d)]

KeyCodes == {"Space", "LShift", "W", "Up", "A", "Left", "S", "Down", "D",
             "Right", "Escape", "Other"}
NoKey == "None"     \* virtual_keycode: None
ElementStates == {"Pressed", "Released"}

\* Mutant: a flag is set when a key is pressed and never cleared
process_keyboard_PressOnly(c, input) ==
    IF input.virtual_keycode = NoKey THEN [controls |-> c, ret |-> FALSE]
    ELSE
      LET is_pressed == input.state = "Pressed"
          keycode == input.virtual_keycode
      IN  CASE keycode = "Space" ->
                 [controls |-> [c EXCEPT !.is_up_pressed = @ \/ is_pressed], ret |-> TRUE]
            [] keycode = "LShift" ->
                 [controls |-> [c EXCEPT !.is_down_pressed = @ \/ is_pressed], ret |-> TRUE]
            [] keycode \in {"W", "Up"} ->
                 [controls |-> [c EXCEPT !.is_forward_pressed = @ \/ is_pressed], ret |-> TRUE]
            [] keycode \in {"A", "Left"} ->
                 [controls |-> [c EXCEPT !.is_left_pressed = @ \/ is_pressed], ret |-> TRUE]
            [] keycode \in {"S", "Down"} ->
                 [controls |-> [c EXCEPT !.is_backward_pressed = @ \/ is_pressed], ret |-> TRUE]
            [] keycode \in {"D", "Right"} ->
                 [controls |-> [c EXCEPT !.is_right_pressed = @ \/ is_pressed], ret |-> TRUE]
            [] OTHER -> [controls |-> c, ret |-> FALSE]

\* Controls::process_keyboard: [controls |-> the new Controls, ret |-> the bool]
process_keyboard(c, input) ==
    IF input.virtual_keycode = NoKey THEN [controls |-> c, ret |-> FALSE]
    ELSE
      LET is_pressed == input.state = "Pressed"
          keycode == input.virtual_keycode
      IN  CASE keycode = "Space" ->
                 [controls |-> [c EXCEPT !.is_up_pressed = is_pressed], ret |-> TRUE]
            [] keycode = "LShift" ->
                 [controls |-> [c EXCEPT !.is_down_pressed = is_pressed], ret |-> TRUE]
            [] keycode \in {"W", "Up"} ->
                 [controls |-> [c EXCEPT !.is_forward_pressed = is_pressed], ret |-> TRUE]
            [] keycode \in {"A", "Left"} ->
                 [controls |-> [c EXCEPT !.is_left_pressed = is_pressed], ret |-> TRUE]
            [] keycode \in {"S", "Down"} ->
                 [controls |-> [c EXCEPT !.is_backward_pressed = is_pressed], ret |-> TRUE]
            [] keycode \in {"D", "Right"} ->
                 [controls |-> [c EXCEPT !.is_right_pressed = is_pressed], ret |-> TRUE]
            [] OTHER -> [controls |-> c, ret |-> FALSE]

(***************************************************************************)
(* timer.rs: Delta and Timer                                               *)
(***************************************************************************)
\* Delta::default
DeltaDefault == 0

\* Instant::now() when run() builds the Timer (Timer::default)
Construction == 0

\* Duration::as_secs_f32 of a whole number of seconds
AsSecsF32(d) == d

\* Instant::duration_since (saturating)
DurationSince(now, earlier) == IF now >= earlier THEN now - earlier ELSE 0

\* Mutant: Timer.0 keeps the Instant of construction
TimerRun_KeepsInstant(self, now) ==
    [self |-> self, delta |-> DurationSince(now, self)]

\* Mutant: every tick reports zero
TimerRun_ZeroDelta(self, now) ==
    [self |-> now, delta |-> 0]

\* Timer::run with Instant::now() = now: the new Timer.0 and the new Delta
TimerRun(self, now) ==
    [self |-> now, delta |-> DurationSince(now, self)]

(***************************************************************************)
(* render/camera.rs: Camera and ControlCamera                              *)
(***************************************************************************)
\* Camera::default
CameraDefault == [position |-> <<0, 0, 0>>, yaw |-> 0, pitch |-> 0]

\* Camera::direction
Direction(cam) ==
    LET p == SinCos(cam.pitch)
        y == SinCos(cam.yaw)
    IN  Normalize(<<Div(p[2] * y[2], Scale), p[1], Div(p[2] * y[1], Scale)>>)

\* bool as u8 as f32
B(flag) == IF flag THEN 1 ELSE 0

\* Mutant: the clamp without its upper branch
ClampPitch_LowerOnly(pitch) ==
    IF pitch < -SAFE_FRAC_PI_2 THEN -SAFE_FRAC_PI_2 ELSE pitch

\* The clamp at the end of ControlCamera::run
ClampPitch(pitch) ==
    IF pitch < -SAFE_FRAC_PI_2 THEN -SAFE_FRAC_PI_2
    ELSE IF pitch > SAFE_FRAC_PI_2 THEN SAFE_FRAC_PI_2
    ELSE pitch

\* Mutant: mouse_scroll is not reset
DrainedControls_ScrollKept(c) == [c EXCEPT !.mouse_dx = 0, !.mouse_dy = 0]

\* ControlCamera::run, what it leaves in Controls
DrainedControls(c) == [c EXCEPT !.mouse_scroll = 0, !.mouse_dx = 0, !.mouse_dy = 0]

\* Mutant: of two opposing flags the second one wins
MovedCamera_SecondFlagWins(d, c, cam) ==
    LET dt == AsSecsF32(d)
        yaw == SinCos(cam.yaw)
        forward == Normalize(<<yaw[2], 0, yaw[1]>>)
        right == Normalize(<<-yaw[1], 0, yaw[2]>>)
        p1 == VAdd(cam.position,
                   VScale(forward, (IF c.is_backward_pressed THEN -1
                                    ELSE B(c.is_forward_pressed)) * speed * dt))
        p2 == VAdd(p1,
                   VScale(right, (IF c.is_left_pressed THEN -1
                                  ELSE B(c.is_right_pressed)) * speed * dt))
        direction == Direction([cam EXCEPT !.position = p2])
        p3 == VAdd(p2, VScale(direction,
                              FromHalves(c.mouse_scroll * speed) * sensitivity * dt))
        p4 == [p3 EXCEPT ![2] = p3[2] + (IF c.is_down_pressed THEN -1
                                         ELSE B(c.is_up_pressed)) * Scale * speed * dt]
        yaw2 == cam.yaw + c.mouse_dx * sensitivity * dt
        pitch2 == cam.pitch + (-c.mouse_dy) * sensitivity * dt
    IN  [position |-> p4, yaw |-> yaw2, pitch |-> ClampPitch(pitch2)]

\* ControlCamera::run, what it leaves in Camera
MovedCamera(d, c, cam) ==
    LET dt == AsSecsF32(d)
        yaw == SinCos(cam.yaw)
        forward == Normalize(<<yaw[2], 0, yaw[1]>>)
        right == Normalize(<<-yaw[1], 0, yaw[2]>>)
        p1 == VAdd(cam.position,
                   VScale(forward, (B(c.is_forward_pressed) - B(c.is_backward_pressed))
                                   * speed * dt))
        p2 == VAdd(p1,
                   VScale(right, (B(c.is_right_pressed) - B(c.is_left_pressed))
                                 * speed * dt))
        direction == Direction([cam EXCEPT !.position = p2])
        p3 == VAdd(p2, VScale(direction,
                              FromHalves(c.mouse_scroll * speed) * sensitivity * dt))
        p4 == [p3 EXCEPT ![2] = p3[2] + (B(c.is_up_pressed) - B(c.is_down_pressed))
                                        * Scale * speed * dt]
        yaw2 == cam.yaw + c.mouse_dx * sensitivity * dt
        pitch2 == cam.pitch + (-c.mouse_dy) * sensitivity * dt
    IN  [position |-> p4, yaw |-> yaw2, pitch |-> ClampPitch(pitch2)]

\* ControlCamera::run: [controls |-> the new Controls, camera |-> the new Camera]
ControlCameraRun(d, c, cam) ==
    [controls |-> DrainedControls(c), camera |-> MovedCamera(d, c, cam)]

(***************************************************************************)
(* lib.rs: the dispatcher built by run() and the event loop's closure      *)
(***************************************************************************)
\* The systems registered with DispatcherBuilder::with, by name
Systems == {"timer", "camera"}

\* Mutant: "camera" registered with no dependency
Dependencies_None(s) == {}

\* The third argument of DispatcherBuilder::with
Dependencies(s) == IF s = "camera" THEN {"timer"} ELSE {}

\* The system registered with with_thread_local
ThreadLocal == "render"

\* A system is started once the systems it depends on have finished
CanStart(s) ==
    /\ pc = "dispatch"
    /\ st[s] = "idle"
    /\ \A d \in Dependencies(s) : st[d] = "done"

\* Mutant: Render registered like an ordinary system without dependencies
CanStartThreadLocal_NoBarrier ==
    /\ pc = "dispatch"
    /\ st["render"] = "idle"

\* Thread-local systems run after every other system has finished
CanStartThreadLocal ==
    /\ pc = "dispatch"
    /\ st[ThreadLocal] = "idle"
    /\ \A s \in Systems : st[s] = "done"

\* Mutant: dispatch returns before the thread-local system has run
DispatchReturned_BeforeThreadLocal ==
    /\ pc = "dispatch"
    /\ \A s \in Systems : st[s] = "done"

\* dispatch returns once the thread-local system has finished
DispatchReturned ==
    /\ pc = "dispatch"
    /\ st[ThreadLocal] = "done"

\* The resources a system holds write access to while it runs (its
\* SystemData: Write<Delta>; Write<Controls>, Write<Camera>; Render fetches
\* Camera for reading only)
Writes(s) ==
    CASE s = "timer" -> {"Delta"}
      [] s = "camera" -> {"Controls", "Camera"}
      [] OTHER -> {}

\* The input values drawn for the events
MouseDeltas == {-FRAC_PI_2, 0, FRAC_PI_2}
ScrollDeltas == {[kind |-> "LineDelta", scroll |-> 1],
                 [kind |-> "LineDelta", scroll |-> -1],
                 [kind |-> "PixelDelta", scroll |-> 1]}

NothingPending == [n |-> 0, dx |-> 0, dy |-> 0, scroll |-> 0]

\* The movement flags of Controls
Flags == {"is_up_pressed", "is_down_pressed", "is_forward_pressed",
          "is_backward_pressed", "is_left_pressed", "is_right_pressed"}

\* The movement flag a key stands for, "none" for any other key
KeyFlag(k) ==
    CASE k = "Space" -> "is_up_pressed"
      [] k = "LShift" -> "is_down_pressed"
      [] k \in {"W", "Up"} -> "is_forward_pressed"
      [] k \in {"S", "Down"} -> "is_backward_pressed"
      [] k \in {"A", "Left"} -> "is_left_pressed"
      [] k \in {"D", "Right"} -> "is_right_pressed"
      [] OTHER -> "none"

NoKeySeen == [f \in Flags |-> FALSE]

\* dispatcher.dispatch has been entered and has not returned, or a system
\* is running
DuringDispatch ==
    pc = "dispatch" \/ \E s \in Systems \cup {ThreadLocal} : st[s] = "running"

\* Mutant: an event is handed to the closure while dispatch is in progress
ClosureReturned_Reentrant == pc \in {"idle", "dispatch"}

\* event_loop.run calls the closure for one event at a time: the next event
\* is handled once the call for the previous one has returned
ClosureReturned == pc = "idle"

Init ==
    /\ pc = "idle"
    /\ st = [s \in Systems \cup {ThreadLocal} |-> "idle"]
    /\ frame = 0
    /\ nev = 0
    /\ clock = Construction
    /\ timer = Construction
    /\ published = <<>>
    /\ delta = DeltaDefault
    /\ controls = ControlsDefault
    /\ camera = CameraDefault
    /\ ran = <<>>
    /\ stamp = [delta |-> 0, camera |-> 0, cameraRead |-> 0, renderRead |-> 0,
                inputInDispatch |-> FALSE]
    /\ pending = NothingPending
    /\ maintained = 0
    /\ lastKey = NoKeySeen
    \* run() registers no physics component and creates no entity
    /\ mass = <<>>
    /\ pos = <<>>
    /\ vel = <<>>
    /\ acc = <<>>
    /\ simSpeed = SimSpeedDefault
    /\ trace = <<>>
    /\ before = [acc |-> <<>>, vel |-> <<>>, pos |-> <<>>]

\* WindowEvent::KeyboardInput, other than Escape pressed
KeyboardInput ==
    /\ ClosureReturned
    /\ nev < MaxEvents
    /\ \E k \in KeyCodes \cup {NoKey}, e \in ElementStates :
         /\ ~(k = "Escape" /\ e = "Pressed")
         /\ controls' = process_keyboard(controls,
                            [state |-> e, virtual_keycode |-> k]).controls
         /\ lastKey' = IF KeyFlag(k) = "none" THEN lastKey
                       ELSE [lastKey EXCEPT ![KeyFlag(k)] = (e = "Pressed")]
    /\ nev' = nev + 1
    /\ stamp' = [stamp EXCEPT !.inputInDispatch = @ \/ DuringDispatch]
    /\ UNCHANGED <<physVars, pc, st, frame, clock, timer, delta, camera, ran,
                   published, maintained, pending>>

\* DeviceEvent::MouseMotion
MouseMotion ==
    /\ ClosureReturned
    /\ nev < MaxEvents
    /\ \E dx \in MouseDeltas, dy \in MouseDeltas :
         /\ controls' = process_mouse(controls, dx, dy)
         /\ pending' = [pending EXCEPT !.n = @ + 1, !.dx = @ + dx, !.dy = @ + dy]
    /\ nev' = nev + 1
    /\ stamp' = [stamp EXCEPT !.inputInDispatch = @ \/ DuringDispatch]
    /\ UNCHANGED <<physVars, pc, st, frame, clock, timer, delta, camera, ran,
                   published, maintained, lastKey>>

\* DeviceEvent::MouseWheel
MouseWheel ==
    /\ ClosureReturned
    /\ nev < MaxEvents
    /\ \E d \in ScrollDeltas :
         /\ controls' = process_wheel(controls, d)
         /\ pending' = [pending EXCEPT !.n = @ + 1, !.scroll = @ + WheelValue(d)]
    /\ nev' = nev + 1
    /\ stamp' = [stamp EXCEPT !.inputInDispatch = @ \/ DuringDispatch]
    /\ UNCHANGED <<physVars, pc, st, frame, clock, timer, delta, camera, ran,
                   published, maintained, lastKey>>

\* WindowEvent::CloseRequested, or Escape pressed: control_flow.set_exit()
Exit ==
    /\ ClosureReturned
    /\ pc' = "exited"
    /\ UNCHANGED <<physVars, st, frame, nev, clock, timer, delta, controls,
                   camera, ran, stamp, published, maintained, lastKey, pending>>

\* Event::RedrawRequested: dispatcher.dispatch(&world) is entered
RedrawRequested ==
    /\ ClosureReturned
    /\ frame < MaxFrames
    /\ pc' = "dispatch"
    /\ frame' = frame + 1
    /\ st' = [s \in Systems \cup {ThreadLocal} |-> "idle"]
    /\ ran' = <<>>
    /\ UNCHANGED <<physVars, nev, clock, timer, delta, controls, camera, stamp,
                   published, maintained, lastKey, pending>>

StartTimer ==
    /\ CanStart("timer")
    /\ st' = [st EXCEPT !["timer"] = "running"]
    /\ UNCHANGED <<physVars, pc, frame, nev, clock, timer, delta, controls,
                   camera, ran, stamp, published, maintained, lastKey, pending>>

\* Timer::run; Instant::now() is the previous reading or later
RunTimer ==
    /\ pc = "dispatch"
    /\ st["timer"] = "running"
    /\ \E elapsed \in 0 .. MaxDt :
         LET now == clock + elapsed
             r == TimerRun(timer, now)
         IN  /\ clock' = now
             /\ timer' = r.self
             /\ delta' = r.delta
             /\ published' = Append(published, r.delta)
    /\ st' = [st EXCEPT !["timer"] = "done"]
    /\ ran' = Append(ran, "timer")
    /\ stamp' = [stamp EXCEPT !.delta = frame]
    /\ UNCHANGED <<physVars, pc, frame, nev, controls, camera, maintained,
                   lastKey, pending>>

StartCamera ==
    /\ CanStart("camera")
    /\ st' = [st EXCEPT !["camera"] = "running"]
    /\ UNCHANGED <<physVars, pc, frame, nev, clock, timer, delta, controls,
                   camera, ran, stamp, published, maintained, lastKey, pending>>

\* ControlCamera::run
RunCamera ==
    /\ pc = "dispatch"
    /\ st["camera"] = "running"
    /\ LET r == ControlCameraRun(delta, controls, camera)
       IN  /\ controls' = r.controls
           /\ camera' = r.camera
    /\ pending' = NothingPending
    /\ st' = [st EXCEPT !["camera"] = "done"]
    /\ ran' = Append(ran, "camera")
    /\ stamp' = [stamp EXCEPT !.camera = frame, !.cameraRead = stamp.delta]
    /\ UNCHANGED <<physVars, pc, frame, nev, clock, timer, delta, published,
                   maintained, lastKey>>

StartRender ==
    /\ CanStartThreadLocal
    /\ st' = [st EXCEPT ![ThreadLocal] = "running"]
    /\ UNCHANGED <<physVars, pc, frame, nev, clock, timer, delta, controls,
                   camera, ran, stamp, published, maintained, lastKey, pending>>

\* Render::run_now: reads Camera, writes nothing of the world
RunRender ==
    /\ pc = "dispatch"
    /\ st[ThreadLocal] = "running"
    /\ st' = [st EXCEPT ![ThreadLocal] = "done"]
    /\ ran' = Append(ran, ThreadLocal)
    /\ stamp' = [stamp EXCEPT !.renderRead = stamp.camera]
    /\ UNCHANGED <<physVars, pc, frame, nev, clock, timer, delta, controls,
                   camera, published, maintained, lastKey, pending>>

\* dispatch has returned; world.maintain() runs and the closure returns
Maintain ==
    /\ DispatchReturned
    /\ pc' = "idle"
    /\ maintained' = maintained + 1
    /\ UNCHANGED <<physVars, st, frame, nev, clock, timer, delta, controls,
                   camera, ran, stamp, published, lastKey, pending>>

Next ==
    \/ KeyboardInput
    \/ MouseMotion
    \/ MouseWheel
    \/ Exit
    \/ RedrawRequested
    \/ StartTimer
    \/ RunTimer
    \/ StartCamera
    \/ RunCamera
    \/ StartRender
    \/ RunRender
    \/ Maintain

Spec == Init /\ [][Next]_vars

(***************************************************************************)
(* Properties of the frame loop (under Spec)                               *)
(***************************************************************************)
\* System s has finished in the current frame
Ran(s) == \E i \in DOMAIN ran : ran[i] = s
\* System a finished before system b in the current frame
RanBefore(a, b) == \E i, j \in DOMAIN ran : i < j /\ ran[i] = a /\ ran[j] = b
\* How often system s finished in the current frame
TimesRan(s) == Cardinality({i \in DOMAIN ran : ran[i] = s})

\* C1 (as claimed): when dispatch returns, Timer, Gravity and Mechanics have
\* each run in this frame, Timer before Mechanics and Gravity before
\* Mechanics.  The dispatcher of run() holds neither Gravity nor Mechanics.
C1_PhysicsRunsInEveryFrame ==
    DispatchReturned =>
        /\ Ran("timer") /\ Ran("gravity") /\ Ran("mechanics")
        /\ RanBefore("timer", "mechanics")
        /\ RanBefore("gravity", "mechanics")

\* C2: Render starts only after every registered system has finished; once
\* it has finished it ran exactly once in this frame, it is the last system
\* that ran, and the Camera it read was written by ControlCamera in this
\* same frame.
C2_RenderRunsOnceAndLast ==
    /\ st[ThreadLocal] /= "idle" => \A s \in Systems : st[s] = "done"
    /\ st[ThreadLocal] = "done" =>
          /\ TimesRan(ThreadLocal) = 1
          /\ ran[Len(ran)] = ThreadLocal
          /\ RanBefore("timer", ThreadLocal) /\ RanBefore("camera", ThreadLocal)
          /\ stamp.renderRead = frame
    /\ DispatchReturned => TimesRan(ThreadLocal) = 1

\* Witness of C2: the second frame's Render has finished and read a Camera
\* that ControlCamera turned in this frame.
C2_Witness ==
    /\ frame = 2
    /\ st[ThreadLocal] = "done"
    /\ stamp.renderRead = 2
    /\ camera.yaw /= 0

\* C3: ControlCamera starts only after Timer has finished, and the Delta it
\* read was written by Timer in this same frame.
C3_CameraReadsFreshDelta ==
    /\ st["camera"] /= "idle" => st["timer"] = "done"
    /\ st["camera"] = "done" => stamp.cameraRead = frame

\* Witness of C3: ControlCamera has run in the second frame with that
\* frame's Delta.
C3_Witness ==
    /\ frame = 2
    /\ st["camera"] = "done"
    /\ stamp.cameraRead = 2
    /\ delta > 0

\* C4 (as claimed): Controls holds the sum of the deltas of the mouse and
\* wheel events received since ControlCamera last drained it.  process_mouse
\* and process_wheel assign, they do not add.
C4_ControlsHoldAccumulatedDeltas ==
    /\ controls.mouse_dx = pending.dx
    /\ controls.mouse_dy = pending.dy
    /\ controls.mouse_scroll = pending.scroll

\* C5: once ControlCamera has run, mouse_dx, mouse_dy and mouse_scroll are
\* zero for as long as no mouse or wheel event has arrived since that run.
C5_AccumulatorsDrained ==
    (stamp.camera >= 1 /\ pending.n = 0) =>
        /\ controls.mouse_dx = 0
        /\ controls.mouse_dy = 0
        /\ controls.mouse_scroll = 0

\* Witness of C5: a frame consumed a mouse motion and a scroll, a further
\* frame has passed, and no mouse or wheel event has arrived since.
C5_Witness ==
    /\ frame = 2
    /\ pc = "idle"
    /\ pending.n = 0
    /\ stamp.camera = 2
    /\ camera.yaw /= 0
    /\ camera.position /= CameraDefault.position

\* C6 (as claimed): after a run of ControlCamera the pitch lies strictly
\* between -SAFE_FRAC_PI_2 and SAFE_FRAC_PI_2.
C6_PitchStrictlyInside ==
    stamp.camera >= 1 =>
        /\ -SAFE_FRAC_PI_2 < camera.pitch
        /\ camera.pitch < SAFE_FRAC_PI_2

\* C6 (amended): after a run of ControlCamera the pitch lies in the closed
\* interval from -SAFE_FRAC_PI_2 to SAFE_FRAC_PI_2.
C6_PitchWithinClamp ==
    stamp.camera >= 1 =>
        /\ -SAFE_FRAC_PI_2 <= camera.pitch
        /\ camera.pitch <= SAFE_FRAC_PI_2

\* Witness of C6: a run of ControlCamera has clamped the pitch to the bound.
C6_Witness ==
    /\ st["camera"] = "done"
    /\ camera.pitch = SAFE_FRAC_PI_2

(***************************************************************************)
(* f32 with its special values: [k |-> "fin", v |-> n], NaN, +-infinity    *)
(***************************************************************************)
Fin(n) == [k |-> "fin", v |-> n]
NaN == [k |-> "nan", v |-> 0]
Inf(sgn) == [k |-> "inf", v |-> sgn]

Sign(n) == IF n < 0 THEN -1 ELSE IF n > 0 THEN 1 ELSE 0
\* The sign of a value that is not NaN (1, 0, -1)
FSign(a) == IF a.k = "inf" THEN a.v ELSE Sign(a.v)

IsFinite(a) == a.k = "fin"

FNeg(a) == IF a.k = "nan" THEN NaN ELSE [a EXCEPT !.v = -a.v]

FAdd(a, b) ==
    IF a.k = "nan" \/ b.k = "nan" THEN NaN
    ELSE IF a.k = "inf" /\ b.k = "inf" THEN (IF a.v = b.v THEN a ELSE NaN)
    ELSE IF a.k = "inf" THEN a
    ELSE IF b.k = "inf" THEN b
    ELSE Fin(a.v + b.v)

FSub(a, b) == FAdd(a, FNeg(b))

FMul(a, b) ==
    IF a.k = "nan" \/ b.k = "nan" THEN NaN
    ELSE IF a.k = "inf" \/ b.k = "inf"
         THEN (IF FSign(a) = 0 \/ FSign(b) = 0 THEN NaN
               ELSE Inf(FSign(a) * FSign(b)))
    ELSE Fin(a.v * b.v)

\* a / b; a zero divisor is +0 (a magnitude, a square)
FDiv(a, b) ==
    IF a.k = "nan" \/ b.k = "nan" THEN NaN
    ELSE IF a.k = "inf"
         THEN (IF b.k = "inf" THEN NaN
               ELSE Inf(a.v * (IF b.v < 0 THEN -1 ELSE 1)))
    ELSE IF b.k = "inf" THEN Fin(0)
    ELSE IF b.v = 0 THEN (IF a.v = 0 THEN NaN ELSE Inf(Sign(a.v)))
    ELSE Fin(Sign(a.v) * Sign(b.v) * (Abs(a.v) \div Abs(b.v)))

FSqrt(a) ==
    IF a.k = "nan" THEN NaN
    ELSE IF a.k = "inf" THEN (IF a.v > 0 THEN a ELSE NaN)
    ELSE IF a.v < 0 THEN NaN
    ELSE Fin(ISqrt(a.v))

\* f32::powi(2)
FPowi2(a) == FMul(a, a)

(***************************************************************************)
(* cgmath Vector3<f32> and Point3<f32> over these values                   *)
(***************************************************************************)
F3(x, y, z) == <<Fin(x), Fin(y), Fin(z)>>
F3Zero == F3(0, 0, 0)                       \* Vector3::zero()
F3Add(u, v) == <<FAdd(u[1], v[1]), FAdd(u[2], v[2]), FAdd(u[3], v[3])>>
F3Sub(u, v) == <<FSub(u[1], v[1]), FSub(u[2], v[2]), FSub(u[3], v[3])>>
\* vector * scalar
F3Scale(u, a) == <<FMul(u[1], a), FMul(u[2], a), FMul(u[3], a)>>
F3IsFinite(u) == IsFinite(u[1]) /\ IsFinite(u[2]) /\ IsFinite(u[3])
\* InnerSpace::magnitude
F3Magnitude(u) ==
    FSqrt(FAdd(FAdd(FMul(u[1], u[1]), FMul(u[2], u[2])), FMul(u[3], u[3])))
\* InnerSpace::normalize; the unit vector's components are in units of 1/Scale
F3Normalize(u) ==
    LET m == F3Magnitude(u)
    IN  <<FDiv(FMul(u[1], Fin(Scale)), m), FDiv(FMul(u[2], Fin(Scale)), m),
          FDiv(FMul(u[3], Fin(Scale)), m)>>
\* scalar * unit vector (in units of 1/Scale)
F3TimesUnit(a, n) ==
    <<FDiv(FMul(a, n[1]), Fin(Scale)), FDiv(FMul(a, n[2]), Fin(Scale)),
      FDiv(FMul(a, n[3]), Fin(Scale))>>

(***************************************************************************)
(* physics/mod.rs: Gravity and Mechanics.  A storage is a function from    *)
(* the entities that hold the component; a join runs over the entities in  *)
(* all of its storages, in the order of their index.                       *)
(***************************************************************************)
Entities == 1 .. NumEntities

\* One pass of Gravity's inner loop body, for the pair (this, other)
GravityTerm(this_pos, other_mass, other_pos) ==
    LET r == F3Sub(other_pos, this_pos)
        a == FDiv(FMul(Fin(G), other_mass), FPowi2(F3Magnitude(r)))
    IN  F3TimesUnit(a, F3Normalize(r))

\* Mutant: the inner loop does not skip the entity itself
RECURSIVE GravityInner_IncludesSelf(_, _, _, _, _)
GravityInner_IncludesSelf(this, other, sum, m, p) ==
    IF other > NumEntities THEN sum
    ELSE IF other \in DOMAIN m /\ other \in DOMAIN p
         THEN GravityInner_IncludesSelf(this, other + 1,
                           F3Add(sum, GravityTerm(p[this], m[other], p[other])), m, p)
    ELSE GravityInner_IncludesSelf(this, other + 1, sum, m, p)

\* Gravity's inner loop over (&ent, &mass, &pos).join(), from entity
\* `other` on, with this_acc = sum so far
RECURSIVE GravityInner(_, _, _, _, _)
GravityInner(this, other, sum, m, p) ==
    IF other > NumEntities THEN sum
    ELSE IF other \in DOMAIN m /\ other \in DOMAIN p /\ this /= other
         THEN GravityInner(this, other + 1,
                           F3Add(sum, GravityTerm(p[this], m[other], p[other])), m, p)
    ELSE GravityInner(this, other + 1, sum, m, p)

\* Mutant: this_acc is not reset to zero before the inner loop
GravityRun_Accumulate(m, p, a) ==
    [this \in DOMAIN a |->
        IF this \in DOMAIN m /\ this \in DOMAIN p
        THEN GravityInner(this, 1, a[this], m, p)
        ELSE a[this]]

\* Gravity::run: the new Acceleration storage
GravityRun(m, p, a) ==
    [this \in DOMAIN a |->
        IF this \in DOMAIN m /\ this \in DOMAIN p
        THEN GravityInner(this, 1, F3Zero, m, p)
        ELSE a[this]]

\* Mutant: the first loop joins Position too
MechanicsRun_VelocityNeedsPosition(s, d, a, v, p) ==
    LET dt == Fin(AsSecsF32(d))
        v1 == [e \in DOMAIN v |->
                 IF e \in DOMAIN a /\ e \in DOMAIN p
                 THEN F3Add(v[e], F3Scale(F3Scale(a[e], dt), Fin(s)))
                 ELSE v[e]]
        p1 == [e \in DOMAIN p |->
                 IF e \in DOMAIN v
                 THEN F3Add(p[e], F3Scale(F3Scale(v1[e], dt), Fin(s)))
                 ELSE p[e]]
    IN  [vel |-> v1, pos |-> p1]

\* Mutant: the position loop uses the velocity as it was before the run
MechanicsRun_ExplicitEuler(s, d, a, v, p) ==
    LET dt == Fin(AsSecsF32(d))
        v1 == [e \in DOMAIN v |->
                 IF e \in DOMAIN a
                 THEN F3Add(v[e], F3Scale(F3Scale(a[e], dt), Fin(s)))
                 ELSE v[e]]
        p1 == [e \in DOMAIN p |->
                 IF e \in DOMAIN v
                 THEN F3Add(p[e], F3Scale(F3Scale(v[e], dt), Fin(s)))
                 ELSE p[e]]
    IN  [vel |-> v1, pos |-> p1]

\* Mechanics::run: the new Velocity and Position storages
MechanicsRun(s, d, a, v, p) ==
    LET dt == Fin(AsSecsF32(d))
        v1 == [e \in DOMAIN v |->
                 IF e \in DOMAIN a
                 THEN F3Add(v[e], F3Scale(F3Scale(a[e], dt), Fin(s)))
                 ELSE v[e]]
        p1 == [e \in DOMAIN p |->
                 IF e \in DOMAIN v
                 THEN F3Add(p[e], F3Scale(F3Scale(v1[e], dt), Fin(s)))
                 ELSE p[e]]
    IN  [vel |-> v1, pos |-> p1]

(***************************************************************************)
(* physics/planets.rs                                                      *)
(***************************************************************************)
\* World::new(): the component types registered with a new world
WorldNew == {}

\* build_planets on a world with the component types `registered`: it
\* registers Mass and builds one entity per row of PLANETS with
\* .with(Planet), .with(Position), .with(Velocity), .with(Acceleration),
\* .with(Mass); EntityBuilder::with fetches the component's storage, which
\* panics when the type is not registered
build_planets(registered) ==
    LET reg == registered \cup {"Mass"}
    IN  IF {"Planet", "Position", "Velocity", "Acceleration", "Mass"} \subseteq reg
        THEN [panics |-> FALSE, built |-> NumPlanets]
        ELSE [panics |-> TRUE, built |-> 0]

(***************************************************************************)
(* The physics systems applied to a small world, in any order              *)
(***************************************************************************)
Components == {"Mass", "Position", "Velocity", "Acceleration"}

\* The component sets an entity starts with
Presences ==
    {Components, {"Mass", "Position", "Velocity"}, {"Mass", "Position"},
     {"Mass", "Position", "Acceleration"}, {"Velocity", "Acceleration"},
     {"Position", "Velocity"}, {"Position", "Velocity", "Acceleration"}}

\* The component sets of an entity that attracts (Mass, Position)
Bodies == {Components, {"Mass", "Position"}}

\* The component sets entity e starts with: any of them for the first two
\* entities, those of a body for the others
PresencesOf(e) == IF e <= 2 THEN Presences ELSE Bodies

\* The places entity e starts at: a place of its own or, for the first two
\* entities, the origin
Places(e) ==
    IF e <= 2 THEN {F3(0, 0, 0), F3(20 * e, 0, 0)}
    ELSE {F3(20 * e, 0, 0)}

\* The other values an entity e starts with
MassOf(e) == Fin(6 * e)
VelocityOf(e) == F3(e, 0, 3)
AccelerationOf(e) == F3(5 * e, 0, 0)

PInit ==
    /\ pc = "idle"
    /\ st = [s \in Systems \cup {ThreadLocal} |-> "idle"]
    /\ frame = 0
    /\ nev = 0
    /\ clock = Construction
    /\ timer = Construction
    /\ published = <<>>
    /\ delta \in 0 .. MaxDt
    /\ controls = ControlsDefault
    /\ camera = CameraDefault
    /\ ran = <<>>
    /\ stamp = [delta |-> 0, camera |-> 0, cameraRead |-> 0, renderRead |-> 0,
                inputInDispatch |-> FALSE]
    /\ pending = NothingPending
    /\ maintained = 0
    /\ lastKey = NoKeySeen
    /\ simSpeed \in 1 .. MaxSpeed
    /\ \E has \in {f \in [Entities -> Presences] :
                      \A e \in Entities : f[e] \in PresencesOf(e)},
          at \in {f \in [Entities -> UNION {Places(e) : e \in Entities}] :
                     \A e \in Entities : f[e] \in Places(e)} :
         /\ mass = [e \in {x \in Entities : "Mass" \in has[x]} |-> MassOf(e)]
         /\ pos = [e \in {x \in Entities : "Position" \in has[x]} |-> at[e]]
         /\ vel = [e \in {x \in Entities : "Velocity" \in has[x]} |-> VelocityOf(e)]
         /\ acc = [e \in {x \in Entities : "Acceleration" \in has[x]} |->
                     AccelerationOf(e)]
    /\ trace = <<>>
    /\ before = [acc |-> acc, vel |-> vel, pos |-> pos]

\* One run of Gravity
RunGravity ==
    /\ Len(trace) < MaxSteps
    /\ acc' = GravityRun(mass, pos, acc)
    /\ trace' = Append(trace, "gravity")
    /\ before' = [acc |-> acc, vel |-> vel, pos |-> pos]
    /\ UNCHANGED <<loopVars, mass, pos, vel, simSpeed>>

\* Every finite coordinate of the Positions p is within MaxCoord
WithinCoords(p) ==
    \A e \in DOMAIN p : \A i \in 1 .. 3 :
        IsFinite(p[e][i]) => Abs(p[e][i].v) <= MaxCoord

\* One run of Mechanics
RunMechanics ==
    /\ Len(trace) < MaxSteps
    /\ LET r == MechanicsRun(simSpeed, delta, acc, vel, pos)
       IN  /\ WithinCoords(r.pos)
           /\ vel' = r.vel
           /\ pos' = r.pos
    /\ trace' = Append(trace, "mechanics")
    /\ before' = [acc |-> acc, vel |-> vel, pos |-> pos]
    /\ UNCHANGED <<loopVars, mass, acc, simSpeed>>

PNext == RunGravity \/ RunMechanics

SpecPhysics == PInit /\ [][PNext]_vars

(***************************************************************************)
(* Properties of the physics systems (under SpecPhysics)                   *)
(***************************************************************************)
\* The system that ran last
Last == IF trace = <<>> THEN "none" ELSE trace[Len(trace)]
\* u * dt * simSpeed, with the Delta and SimSpeed of the behaviour
TimesDtSpeed(u) == F3Scale(F3Scale(u, Fin(AsSecsF32(delta))), Fin(simSpeed))
\* Two entities that hold Mass and Position are at the same place
Coincide(p) ==
    \E e, o \in DOMAIN mass \cap DOMAIN p : e /= o /\ p[e] = p[o]

\* C7 (as claimed): a run of Gravity writes only finite values into the
\* Accelerations, also when two entities are at the same place, and a
\* following run of Mechanics leaves every Velocity and Position finite.
\* Gravity divides by the squared distance and normalizes the zero vector.
C7_GravityStaysFinite ==
    /\ (Last = "gravity" /\ Coincide(pos)) =>
          \A e \in DOMAIN acc : F3IsFinite(acc[e])
    /\ (Len(trace) >= 2 /\ trace[Len(trace) - 1] = "gravity"
          /\ Last = "mechanics" /\ Coincide(before.pos)) =>
          /\ \A e \in DOMAIN vel : F3IsFinite(vel[e])
          /\ \A e \in DOMAIN pos : F3IsFinite(pos[e])

\* C8 (as claimed): a run of Mechanics changes nothing of an entity that
\* lacks Position or Velocity; an entity with Position and Velocity but no
\* Acceleration keeps its Velocity and moves by velocity * dt * simSpeed.
C8_OnlyPlacedEntitiesChange ==
    Last = "mechanics" =>
        \A e \in Entities :
            /\ (e \notin DOMAIN pos \/ e \notin DOMAIN vel) =>
                  /\ e \in DOMAIN vel => vel[e] = before.vel[e]
                  /\ e \in DOMAIN pos => pos[e] = before.pos[e]
                  /\ e \in DOMAIN acc => acc[e] = before.acc[e]
            /\ (e \in DOMAIN pos /\ e \in DOMAIN vel /\ e \notin DOMAIN acc) =>
                  /\ vel[e] = before.vel[e]
                  /\ pos[e] = F3Add(before.pos[e], TimesDtSpeed(before.vel[e]))

\* C8 (amended): a run of Mechanics changes the Velocity of exactly the
\* entities that hold Acceleration and Velocity, with or without Position
\* (by acceleration * dt * simSpeed), and the Position of exactly the
\* entities that hold Velocity and Position (by the new velocity * dt *
\* simSpeed); it changes no Acceleration and no other component, so an
\* entity without Velocity is unchanged and an entity with Position and
\* Velocity but no Acceleration keeps its Velocity.
C8_MechanicsFrame ==
    Last = "mechanics" =>
        /\ acc = before.acc
        /\ DOMAIN vel = DOMAIN before.vel
        /\ DOMAIN pos = DOMAIN before.pos
        /\ \A e \in Entities :
            /\ (e \in DOMAIN vel /\ e \notin DOMAIN acc) => vel[e] = before.vel[e]
            /\ (e \in DOMAIN vel /\ e \in DOMAIN acc) =>
                  vel[e] = F3Add(before.vel[e], TimesDtSpeed(before.acc[e]))
            /\ (e \in DOMAIN pos /\ e \notin DOMAIN vel) => pos[e] = before.pos[e]
            /\ (e \in DOMAIN pos /\ e \in DOMAIN vel) =>
                  pos[e] = F3Add(before.pos[e], TimesDtSpeed(vel[e]))

\* Witness of C8: Mechanics has changed the Velocity of an entity that has
\* Acceleration and Velocity but no Position, and has moved an entity that
\* has Position and Velocity but no Acceleration.
C8_Witness ==
    /\ Last = "mechanics"
    /\ \E e \in (DOMAIN vel \cap DOMAIN acc) \ DOMAIN pos : vel[e] /= before.vel[e]
    /\ \E e \in (DOMAIN pos \cap DOMAIN vel) \ DOMAIN acc :
          /\ pos[e] /= before.pos[e]
          /\ vel[e] = before.vel[e]

\* C9: after a run of Mechanics an entity with Position p0, Velocity v0 and
\* Acceleration a has Velocity v0 + a*dt*s and Position
\* p0 + (v0 + a*dt*s)*dt*s, which, for finite p0, v0 and a, is not
\* p0 + v0*dt*s when a*dt*s is not zero.
C9_SemiImplicitEuler ==
    Last = "mechanics" =>
        \A e \in DOMAIN pos \cap DOMAIN vel \cap DOMAIN acc :
            LET p0 == before.pos[e]
                v0 == before.vel[e]
                a == before.acc[e]
            IN  /\ vel[e] = F3Add(v0, TimesDtSpeed(a))
                /\ pos[e] = F3Add(p0, TimesDtSpeed(F3Add(v0, TimesDtSpeed(a))))
                /\ (F3IsFinite(p0) /\ F3IsFinite(v0) /\ F3IsFinite(a)
                        /\ TimesDtSpeed(a) /= F3Zero) =>
                      pos[e] /= F3Add(p0, TimesDtSpeed(v0))

\* Witness of C9: Mechanics has run after Gravity on an entity whose finite
\* acceleration * dt * s is not zero.
C9_Witness ==
    /\ Len(trace) >= 2
    /\ trace[Len(trace) - 1] = "gravity"
    /\ Last = "mechanics"
    /\ \E e \in DOMAIN pos \cap DOMAIN vel \cap DOMAIN acc :
          /\ F3IsFinite(before.acc[e])
          /\ TimesDtSpeed(before.acc[e]) /= F3Zero
          /\ pos[e] /= F3Add(before.pos[e], TimesDtSpeed(before.vel[e]))

\* C10: after two runs of Gravity in a row the Acceleration storage is what
\* it was after the first of the two.
C10_GravityIdempotent ==
    (Len(trace) >= 2 /\ Last = "gravity" /\ trace[Len(trace) - 1] = "gravity") =>
        acc = before.acc

\* Witness of C10: Gravity has run twice in a row and has given an entity a
\* finite acceleration that is neither zero nor the one it started with.
C10_Witness ==
    /\ Len(trace) >= 2
    /\ Last = "gravity"
    /\ trace[Len(trace) - 1] = "gravity"
    /\ \E e \in DOMAIN acc :
          /\ F3IsFinite(acc[e])
          /\ acc[e] /= F3Zero
          /\ acc[e] /= AccelerationOf(e)

\* The orders in which the entities can be visited
Orders ==
    {o \in [Entities -> Entities] : \A i, j \in Entities : o[i] = o[j] => i = j}

\* The pull of entity o on entity e: G * mass(o) / |pos(o) - pos(e)|^2 along
\* the unit vector from e to o
Pull(e, o) ==
    LET r == F3Sub(pos[o], pos[e])
    IN  F3TimesUnit(FDiv(FMul(Fin(G), mass[o]), FPowi2(F3Magnitude(r))),
                    F3Normalize(r))

\* The pulls on e of the entities that hold Mass and Position and are not e
PullsOn(e) == [o \in (DOMAIN mass \cap DOMAIN pos) \ {e} |-> Pull(e, o)]

\* The sum of those of the pulls pl that come from ord[i], ord[i + 1], ...
RECURSIVE PullSum(_, _, _)
PullSum(pl, ord, i) ==
    IF i > NumEntities THEN F3Zero
    ELSE IF ord[i] \in DOMAIN pl
         THEN F3Add(pl[ord[i]], PullSum(pl, ord, i + 1))
         ELSE PullSum(pl, ord, i + 1)

\* C11: after a run of Gravity the Acceleration of every entity e that holds
\* Mass, Position and Acceleration is the sum of the pulls of every other
\* entity that holds Mass and Position, with or without Acceleration; e
\* itself adds nothing, and the sum is the same in whichever order the
\* entities are visited.
C11_AccelerationIsSumOfPulls ==
    Last = "gravity" =>
        \A e \in DOMAIN mass \cap DOMAIN pos \cap DOMAIN acc :
            LET pl == PullsOn(e)
            IN  \A ord \in Orders : acc[e] = PullSum(pl, ord, 1)

\* Witness of C11: Gravity has run on an entity with two others further
\* along the x axis, one of them without Acceleration; both pulls are finite
\* and not zero, and the new Acceleration is their sum and points to them.
C11_Witness ==
    /\ Last = "gravity"
    /\ \E e \in DOMAIN mass \cap DOMAIN pos \cap DOMAIN acc :
         \E o1, o2 \in (DOMAIN mass \cap DOMAIN pos) \ {e} :
            /\ o1 /= o2
            /\ o1 \notin DOMAIN acc
            /\ F3IsFinite(Pull(e, o1)) /\ Pull(e, o1) /= F3Zero
            /\ F3IsFinite(Pull(e, o2)) /\ Pull(e, o2) /= F3Zero
            /\ pos[e][1].v < pos[o1][1].v /\ pos[e][1].v < pos[o2][1].v
            /\ acc[e] = F3Add(Pull(e, o1), Pull(e, o2))
            /\ acc[e][1].v > 0
            /\ acc[e] /= before.acc[e]

(***************************************************************************)
(* Further properties of the frame loop (under Spec)                       *)
(***************************************************************************)
RECURSIVE SumSeq(_)
SumSeq(q) == IF q = <<>> THEN 0 ELSE q[1] + SumSeq(Tail(q))

\* C12: the clock never going back, every Delta that Timer has published is
\* non-negative, Timer holds the instant of its latest run, the Delta
\* resource holds the latest published value, and the published values add
\* up to the time from the construction of Timer to its latest run.
C12_DeltasSumToElapsedTime ==
    /\ \A i \in DOMAIN published : published[i] >= 0
    /\ timer = clock
    /\ published /= <<>> => delta = published[Len(published)]
    /\ SumSeq(published) = clock - Construction

\* Witness of C12: Timer has run in two frames, and time had passed before
\* each of the two runs.
C12_Witness ==
    /\ Len(published) = 2
    /\ published[1] > 0
    /\ published[2] > 0
    /\ clock = published[1] + published[2]

\* C13 (as claimed): the Delta that ControlCamera reads in the first frame
\* is zero, and every later Delta is non-negative.
C13_FirstFrameDeltaZero ==
    /\ (frame = 1 /\ st["camera"] = "done") => delta = 0
    /\ (frame > 1 /\ st["camera"] = "done") => delta >= 0

\* C13 (amended): Delta is zero until Timer first runs, which no system
\* reads; the Delta that ControlCamera reads in a frame is the one Timer
\* published in that frame and is non-negative, and in the first frame it is
\* the time that has passed since the construction of Timer.
C13_FirstFrameDeltaSinceConstruction ==
    /\ published = <<>> => (delta = DeltaDefault /\ stamp.camera = 0)
    /\ st["camera"] = "done" =>
          /\ Len(published) = frame
          /\ delta = published[frame]
          /\ delta >= 0
          /\ frame = 1 => delta = clock - Construction

\* Witness of C13: ControlCamera has run in the first frame with a Delta
\* that is not zero.
C13_Witness ==
    /\ frame = 1
    /\ st["camera"] = "done"
    /\ delta > 0

\* C14 (as claimed): from the first dispatch on the world holds one entity
\* per row of PLANETS, each with Position, Velocity, Mass and a zero
\* Acceleration, and build_planets on a new world does not fail.  run()
\* never calls build_planets, and build_planets registers Mass only.
C14_PlanetsBuiltBeforeFirstFrame ==
    frame >= 1 =>
        /\ Cardinality(DOMAIN pos) = NumPlanets
        /\ DOMAIN mass = DOMAIN pos
        /\ DOMAIN vel = DOMAIN pos
        /\ DOMAIN acc = DOMAIN pos
        /\ \A e \in DOMAIN acc : acc[e] = F3Zero
        /\ ~build_planets(WorldNew).panics

\* C15: world.maintain() has run once for every RedrawRequested event whose
\* dispatch has returned and not yet for the one in progress, so never
\* while a system of the frame is waiting, running or just done; when it
\* has run for the latest frame, every system of that frame, Render
\* included, has finished.
C15_MaintainOnceAfterDispatch ==
    /\ pc = "dispatch" => maintained = frame - 1
    /\ pc /= "dispatch" => maintained = frame
    /\ (\E s \in Systems \cup {ThreadLocal} : st[s] = "running") =>
          maintained = frame - 1
    /\ (frame >= 1 /\ maintained = frame) =>
          /\ \A s \in Systems \cup {ThreadLocal} : st[s] = "done"
          /\ ran[Len(ran)] = ThreadLocal

\* Witness of C15: two frames have been dispatched and maintained.
C15_Witness ==
    /\ frame = 2
    /\ pc = "idle"
    /\ maintained = 2
    /\ Len(ran) = 3

AllSystems == Systems \cup {ThreadLocal}
\* The systems that hold write access to resource r right now
Writers(r) == {s \in AllSystems : st[s] = "running" /\ r \in Writes(s)}

\* No two systems declare write access to the same resource: Delta is
\* written by Timer only, Controls and Camera by ControlCamera only
WriteSetsDisjoint ==
    /\ \A s, t \in AllSystems : s /= t => Writes(s) \cap Writes(t) = {}
    /\ {s \in AllSystems : "Delta" \in Writes(s)} = {"timer"}
    /\ {s \in AllSystems : "Controls" \in Writes(s)} = {"camera"}
    /\ {s \in AllSystems : "Camera" \in Writes(s)} = {"camera"}

\* C16: the write sets of the systems are disjoint, two systems that are
\* running at the same time write no common resource, no system is running
\* outside of a dispatch, and no input handler has run during a dispatch.
C16_NoSimultaneousWriters ==
    /\ WriteSetsDisjoint
    /\ \A s, t \in AllSystems :
          (s /= t /\ st[s] = "running" /\ st[t] = "running") =>
              Writes(s) \cap Writes(t) = {}
    /\ pc /= "dispatch" => \A s \in AllSystems : st[s] /= "running"
    /\ ~stamp.inputInDispatch

\* Witness of C16: in the second frame ControlCamera holds its write access
\* to Controls, which an input handler wrote since the first frame.
C16_Witness ==
    /\ frame = 2
    /\ pc = "dispatch"
    /\ Writers("Controls") = {"camera"}
    /\ stamp.camera = 1
    /\ pending.n >= 1

\* The pairs of opposing movement flags, with a key for each
OpposingFlags ==
    {<<"is_forward_pressed", "is_backward_pressed", "W", "S">>,
     <<"is_right_pressed", "is_left_pressed", "D", "A">>,
     <<"is_up_pressed", "is_down_pressed", "Space", "LShift">>}

\* Controls c after key k has been pressed
Press(c, k) ==
    process_keyboard(c, [state |-> "Pressed", virtual_keycode |-> k]).controls

\* C17: when ControlCamera runs with both flags of an opposing pair set,
\* it leaves the Camera as it would with neither of the two set; the
\* Controls it reads are the same whichever of the two keys was pressed
\* last; with no scroll pending the position
\* then keeps its y (up and down) or, the other horizontal pair being
\* balanced too, its x and z (forward and backward, left and right).
C17_OpposingFlagsCancel ==
    st["camera"] = "running" =>
        LET moved == MovedCamera(delta, controls, camera)
        IN  /\ \A pr \in OpposingFlags :
                  /\ (controls[pr[1]] /\ controls[pr[2]]) =>
                        moved = MovedCamera(delta,
                                    [controls EXCEPT ![pr[1]] = FALSE,
                                                     ![pr[2]] = FALSE],
                                    camera)
                  /\ Press(Press(controls, pr[3]), pr[4])
                        = Press(Press(controls, pr[4]), pr[3])
            /\ (controls.is_up_pressed /\ controls.is_down_pressed
                  /\ controls.mouse_scroll = 0) =>
                  moved.position[2] = camera.position[2]
            /\ (controls.is_forward_pressed = controls.is_backward_pressed
                  /\ controls.is_right_pressed = controls.is_left_pressed
                  /\ (controls.is_forward_pressed \/ controls.is_right_pressed)
                  /\ controls.mouse_scroll = 0) =>
                  /\ moved.position[1] = camera.position[1]
                  /\ moved.position[3] = camera.position[3]

\* Witness of C17: ControlCamera has run for a frame of non-zero length with
\* forward and backward both set, and the camera is where it started.
C17_Witness ==
    /\ st["camera"] = "done"
    /\ delta > 0
    /\ controls.is_forward_pressed /\ controls.is_backward_pressed
    /\ camera.position = CameraDefault.position

\* C18: every movement flag is the pressed state of the latest keyboard
\* event among the keys mapped to it, false if there was none, also after
\* mouse and wheel events and runs of ControlCamera; whenever the closure
\* can take an event, a keyboard event with a mapped key sets the flag of that key alone, so that the release of one
\* alias clears the flag and the mouse fields stay as they are, and returns
\* true; one with no keycode or an unmapped one returns false and changes
\* no field.
C18_FlagsFollowLatestKeyEvent ==
    /\ \A f \in Flags : controls[f] = lastKey[f]
    /\ ClosureReturned =>
          \A k \in KeyCodes \cup {NoKey}, e \in ElementStates :
              LET r == process_keyboard(controls,
                                        [state |-> e, virtual_keycode |-> k])
              IN  IF KeyFlag(k) = "none"
                  THEN r = [controls |-> controls, ret |-> FALSE]
                  ELSE r = [controls |->
                                [controls EXCEPT ![KeyFlag(k)] = (e = "Pressed")],
                            ret |-> TRUE]

\* Witness of C18: of two input events the first was Space pressed, which
\* raised the camera in the first frame (the pitch being zero, no scroll did
\* it), and the second Space released; ControlCamera has run in the second
\* frame and the flags are clear.
C18_Witness ==
    /\ frame = 2
    /\ st["camera"] = "done"
    /\ nev = 2
    /\ camera.pitch = 0
    /\ camera.position[2] > 0
    /\ \A f \in Flags : ~controls[f] /\ ~lastKey[f]

=============================================================================
